---- MODULE Spec2Model ----
(***************************************************************************)
(* Model of the workout text parser and exercise-name mapper of            *)
(* garmincoach: src/exercise_mapper.py (ExerciseMapper) and                *)
(* src/workout_parser.py (WorkoutParser).                                  *)
(*                                                                         *)
(* A Python str is a sequence of one-character strings.  Characters that   *)
(* are not plain ASCII text are written as tokens: "TAB" (U+0009), "NL"    *)
(* (U+000A), "MULT" (U+00D7), "ENDASH" (U+2013), "EMDASH" (U+2014),        *)
(* "BULLET" (U+2022).  None is the string "None".                          *)
(***************************************************************************)
EXTENDS Integers, Sequences, FiniteSets, TLC

VARIABLES file, exercise_map, lastAddOf, op

vars == <<file, exercise_map, lastAddOf, op>>

None == "None"

(***************************************************************************)
(* Characters and the character classes of Python's re (str patterns).     *)
(***************************************************************************)
LowerLetters == <<"a", "b", "c", "d", "e", "f", "g", "h", "i", "j", "k", "l", "m", "n", "o", "p", "q", "r", "s", "t", "u", "v", "w", "x", "y", "z">>

UpperLetters == <<"A", "B", "C", "D", "E", "F", "G", "H", "I", "J", "K", "L", "M", "N", "O", "P", "Q", "R", "S", "T", "U", "V", "W", "X", "Y", "Z">>

LowerSet == {LowerLetters[i] : i \in DOMAIN LowerLetters}

UpperSet == {UpperLetters[i] : i \in DOMAIN UpperLetters}

DigitSet == {"0", "1", "2", "3", "4", "5", "6", "7", "8", "9"}

\* str.lower() / str.upper() on one character
LowerOf == [c \in UpperSet |-> LowerLetters[CHOOSE i \in DOMAIN UpperLetters : UpperLetters[i] = c]]

UpperOf == [c \in LowerSet |-> UpperLetters[CHOOSE i \in DOMAIN LowerLetters : LowerLetters[i] = c]]

LowerChar(c) == IF c \in UpperSet THEN LowerOf[c] ELSE c

UpperChar(c) == IF c \in LowerSet THEN UpperOf[c] ELSE c

\* \d
IsDigit(c) == c \in DigitSet

\* \s (and the characters str.strip() removes)
SpaceSet == {" ", "TAB", "NL"}

IsSpace(c) == c \in SpaceSet

\* \w
IsWord(c) == c \in LowerSet \/ c \in UpperSet \/ c \in DigitSet \/ c = "_"

\* the value of a decimal digit
DigitVal(c) == CHOOSE n \in 0..9 : <<"0", "1", "2", "3", "4", "5", "6", "7", "8", "9">>[n + 1] = c

(***************************************************************************)
(* str helpers                                                             *)
(***************************************************************************)
Min(S) == CHOOSE x \in S : \A y \in S : x <= y

Max(S) == CHOOSE x \in S : \A y \in S : x >= y

\* s[i:j] with 1-based inclusive bounds; empty when i > j
Slice(s, i, j) == IF i > j THEN <<>> ELSE SubSeq(s, i, j)

\* str.lower()
Lowercase(s) == [i \in DOMAIN s |-> LowerChar(s[i])]

\* str.upper()
Uppercase(s) == [i \in DOMAIN s |-> UpperChar(s[i])]

\* str.strip()
Strip(s) ==
    LET keep == {i \in DOMAIN s : ~IsSpace(s[i])}
    IN  IF keep = {} THEN <<>> ELSE SubSeq(s, Min(keep), Max(keep))

\* re.sub(r'\s+', ' ', s): every maximal run of whitespace becomes one space
CollapseSpaces(s) ==
    LET marked == [i \in DOMAIN s |->
                     IF IsSpace(s[i])
                     THEN IF i > 1 /\ IsSpace(s[i - 1]) THEN "DROP" ELSE " "
                     ELSE s[i]]
    IN  SelectSeq(marked, LAMBDA c : c # "DROP")

\* [^\w\s-]
IsSpecial(c) == ~(IsWord(c) \/ IsSpace(c) \/ c = "-")

\* re.sub(r'[^\w\s-]', '', s)
RemoveSpecial(s) == SelectSeq(s, LAMBDA c : ~IsSpecial(c))

(***************************************************************************)
(* ExerciseMapper._normalize_name                                          *)
(***************************************************************************)
_normalize_name(name) == RemoveSpecial(CollapseSpaces(Strip(Lowercase(name))))

(***************************************************************************)
(* ExerciseMapper._to_garmin_format                                        *)
(***************************************************************************)
\* re.sub(r'[\s-]+', '_', s): every maximal run of whitespace and hyphens
\* becomes one underscore
UnderscoreRuns(s) ==
    LET sep(c) == IsSpace(c) \/ c = "-"
        marked == [i \in DOMAIN s |->
                     IF sep(s[i])
                     THEN IF i > 1 /\ sep(s[i - 1]) THEN "DROP" ELSE "_"
                     ELSE s[i]]
    IN  SelectSeq(marked, LAMBDA c : c # "DROP")

_to_garmin_format(name) == Uppercase(UnderscoreRuns(RemoveSpecial(name)))

(***************************************************************************)
(* thefuzz, as called from map_exercise and search:                        *)
(* process.extractBests(query, choices, scorer=fuzz.token_sort_ratio,      *)
(* limit=n).  Query and choices are passed through utils.full_process,     *)
(* scored with the token-sort ratio (normalized indel similarity of the    *)
(* sorted tokens, 0..100), ranked by descending score with the earlier     *)
(* choice first among equal scores, cut to the first n; the reported       *)
(* score is int(round(score)).                                             *)
(***************************************************************************)
\* code-point order of the characters
CharOrder == <<"TAB", "NL", " ", "!", "#", "*", ",", "-", ".", "/", "0", "1", "2", "3", "4", "5", "6", "7", "8", "9", ":">> \o UpperLetters \o <<"_">> \o LowerLetters \o <<"MULT", "ENDASH", "EMDASH", "BULLET">>

CharCode(c) == CHOOSE i \in DOMAIN CharOrder : CharOrder[i] = c

IsAscii(c) == c \notin {"MULT", "ENDASH", "EMDASH", "BULLET"}

\* str < str
LexLess(a, b) ==
    \E i \in 1..(Len(b)) :
        /\ \A j \in 1..(i - 1) : j <= Len(a) /\ a[j] = b[j]
        /\ \/ i > Len(a)
           \/ i <= Len(a) /\ CharCode(a[i]) < CharCode(b[i])

\* (mutation of FullProcess: punctuation is kept, not blanked)
FullProcessKeepPunctuation(s) == Strip(Lowercase(SelectSeq(s, IsAscii)))

\* utils.full_process(s, force_ascii=True)
FullProcess(s) ==
    LET ascii == SelectSeq(s, IsAscii)
        blanked == [i \in DOMAIN ascii |-> IF IsWord(ascii[i]) THEN ascii[i] ELSE " "]
    IN  Strip(Lowercase(blanked))

\* str.split()
RECURSIVE SplitWords(_)
SplitWords(s) ==
    LET t == Strip(s)
        gaps == {i \in DOMAIN t : IsSpace(t[i])}
    IN  IF t = <<>> THEN <<>>
        ELSE IF gaps = {} THEN <<t>>
        ELSE <<SubSeq(t, 1, Min(gaps) - 1)>> \o SplitWords(SubSeq(t, Min(gaps), Len(t)))

\* " ".join(words)
RECURSIVE JoinWords(_)
JoinWords(ws) ==
    IF ws = <<>> THEN <<>>
    ELSE IF Len(ws) = 1 THEN ws[1]
    ELSE ws[1] \o <<" ">> \o JoinWords(Tail(ws))

\* sorted(words)
RECURSIVE InsertWord(_, _)
InsertWord(w, sorted) ==
    IF sorted = <<>> THEN <<w>>
    ELSE IF LexLess(w, sorted[1]) THEN <<w>> \o sorted
    ELSE <<sorted[1]>> \o InsertWord(w, Tail(sorted))

RECURSIVE SortWords(_)
SortWords(ws) == IF ws = <<>> THEN <<>> ELSE InsertWord(ws[1], SortWords(Tail(ws)))

\* (mutation of TokenSort: the words are joined in their given order)
TokenSortUnsorted(s) == JoinWords(SplitWords(s))

\* the token-sorted form of a processed string
TokenSort(s) == JoinWords(SortWords(SplitWords(s)))

\* one row of the longest-common-subsequence table: cur[j] for the
\* character x against b[1..j], from the row above (prev)
RECURSIVE LcsRow(_, _, _, _)
LcsRow(prev, x, b, cur) ==
    LET j == Len(cur) + 1
        left == IF j = 1 THEN 0 ELSE cur[j - 1]
        diag == IF j = 1 THEN 0 ELSE prev[j - 1]
    IN  IF j > Len(b) THEN cur
        ELSE LcsRow(prev, x, b,
                    Append(cur, IF x = b[j] THEN diag + 1
                                ELSE IF prev[j] >= left THEN prev[j] ELSE left))

RECURSIVE LcsRows(_, _, _)
LcsRows(a, b, prev) ==
    LET row == LcsRow(prev, a[1], b, <<>>)
    IN  IF a = <<>> THEN prev
        ELSE IF Len(row) = Len(b) THEN LcsRows(Tail(a), b, row) ELSE row

\* length of the longest common subsequence
LcsLen(a, b) ==
    IF a = <<>> \/ b = <<>> THEN 0
    ELSE LcsRows(a, b, [j \in 1..Len(b) |-> 0])[Len(b)]

\* the ratio as an exact fraction <<numerator, denominator>>:
\* 100 * (1 - indel distance / (len(a) + len(b)))
RawRatio(a, b) ==
    IF Len(a) + Len(b) = 0 THEN <<100, 1>>
    ELSE <<200 * LcsLen(a, b), Len(a) + Len(b)>>

\* int(round(x)) of a fraction (round half to even)
RoundFraction(f) ==
    LET q == f[1] \div f[2]
        r == f[1] % f[2]
    IN  IF 2 * r < f[2] THEN q
        ELSE IF 2 * r > f[2] THEN q + 1
        ELSE IF q % 2 = 0 THEN q ELSE q + 1

\* fuzz.token_sort_ratio on processed strings, unrounded
RawScore(query, choice) ==
    RawRatio(TokenSort(FullProcess(query)), TokenSort(FullProcess(choice)))

\* the integer score thefuzz reports
token_sort_ratio(query, choice) == RoundFraction(RawScore(query, choice))

\* fraction comparison
FracLess(f, g) == f[1] * g[2] < g[1] * f[2]

\* the unrounded score of every choice, in the order of the choices
RECURSIVE RawScores(_, _)
RawScores(query, choices) ==
    IF choices = <<>> THEN <<>>
    ELSE <<RawScore(query, choices[1])>> \o RawScores(query, Tail(choices))

\* the choices (as indices) in ranking order: repeatedly take the best of
\* those left, the earlier one among equal scores
RECURSIVE RankFrom(_, _)
RankFrom(raw, left) ==
    IF left = {} THEN <<>>
    ELSE LET best == CHOOSE i \in left :
                         \A j \in left \ {i} :
                             FracLess(raw[j], raw[i]) \/ (~FracLess(raw[i], raw[j]) /\ i < j)
         IN  <<best>> \o RankFrom(raw, left \ {best})

\* (mutation of extractBests: among equal scores the later choice first)
extractBestsLaterFirst(query, choices, limit) ==
    LET raw == RawScores(query, choices)
        n == Len(choices)
        back == RankFrom([i \in 1..n |-> raw[n + 1 - i]], 1..n)
        m == IF limit < n THEN limit ELSE n
    IN  [r \in 1..m |-> <<choices[n + 1 - back[r]], RoundFraction(raw[n + 1 - back[r]])>>]

\* process.extractBests: <<choice, score>> pairs, best first
extractBests(query, choices, limit) ==
    LET raw == RawScores(query, choices)
        order == RankFrom(raw, DOMAIN choices)
        m == IF limit < Len(choices) THEN limit ELSE Len(choices)
    IN  [r \in 1..m |-> <<choices[order[r]], RoundFraction(raw[order[r]])>>]

(***************************************************************************)
(* The catalog: a Python dict, kept as the sequence of its items in        *)
(* insertion order.                                                        *)
(***************************************************************************)
DictKeys(m) == [i \in DOMAIN m |-> m[i].k]

DictHas(m, key) == \E i \in DOMAIN m : m[i].k = key

DictGet(m, key) == m[CHOOSE i \in DOMAIN m : m[i].k = key].v

\* (mutation of DictSet: an existing key keeps its old value, as dict.setdefault)
DictSetDefault(m, key, value) ==
    IF DictHas(m, key) THEN m ELSE Append(m, [k |-> key, v |-> value])

\* (mutation of DictSet: the dict is replaced by the one new item)
DictSetAlone(m, key, value) == <<[k |-> key, v |-> value]>>

\* m[key] = value: an existing key keeps its position
DictSet(m, key, value) ==
    IF DictHas(m, key)
    THEN [i \in DOMAIN m |-> IF m[i].k = key THEN [k |-> key, v |-> value] ELSE m[i]]
    ELSE Append(m, [k |-> key, v |-> value])

FuzzyLimit == 3

\* (mutation of ConfidenceThreshold: a lower threshold)
ConfidenceThresholdLow == 70 - 10

ConfidenceThreshold == 70

(***************************************************************************)
(* ExerciseMapper.map_exercise: returns (exercise_dict, confidence)        *)
(***************************************************************************)
UnknownEntry(name) ==
    [garmin_name |-> _to_garmin_format(name), garmin_category |-> "UNKNOWN", muscles |-> <<>>]

\* "if matches and matches[0][1] >= 70", else the UNKNOWN entry
FuzzyResult(m, name, matches) ==
    IF matches # <<>> /\ matches[1][2] >= ConfidenceThreshold
    THEN [entry |-> DictGet(m, matches[1][1]), confidence |-> matches[1][2]]
    ELSE [entry |-> UnknownEntry(name), confidence |-> 0]

map_exercise(m, name) ==
    LET normalized == _normalize_name(name)
    IN  IF DictHas(m, normalized)
        THEN [entry |-> DictGet(m, normalized), confidence |-> 100]
        ELSE FuzzyResult(m, name,
                         IF m # <<>>
                         THEN extractBests(normalized, DictKeys(m), FuzzyLimit)
                         ELSE <<>>)

(***************************************************************************)
(* ExerciseMapper.search: [] on an empty catalog, else the best `limit`    *)
(* keys for the normalized query                                           *)
(***************************************************************************)
\* (mutation of search: the limit is not passed on, so thefuzz's default of
\* 5 applies)
searchDefaultLimit(m, query, limit) ==
    IF m = <<>> THEN <<>> ELSE extractBests(_normalize_name(query), DictKeys(m), 5)

search(m, query, limit) ==
    IF m = <<>> THEN <<>> ELSE extractBests(_normalize_name(query), DictKeys(m), limit)

(***************************************************************************)
(* What map_exercise returns is a reference: "return                       *)
(* self.exercise_map[normalized], 100" and "return                         *)
(* self.exercise_map[best_match], confidence" hand out the dict stored in  *)
(* the catalog, and only the UNKNOWN dict is a new object.  ReturnedKey is *)
(* <<key>> when the returned dict is the one stored under key, and <<>>    *)
(* when it is a new dict.                                                  *)
(***************************************************************************)
FuzzyKey(matches) ==
    IF matches # <<>> /\ matches[1][2] >= ConfidenceThreshold THEN <<matches[1][1]>> ELSE <<>>

ReturnedKey(m, name) ==
    IF DictHas(m, _normalize_name(name))
    THEN <<_normalize_name(name)>>
    ELSE FuzzyKey(IF m # <<>>
                  THEN extractBests(_normalize_name(name), DictKeys(m), FuzzyLimit)
                  ELSE <<>>)

\* result["confidence"] = confidence
WithConfidence(entry, confidence) ==
    [garmin_name |-> entry.garmin_name, garmin_category |-> entry.garmin_category,
     muscles |-> entry.muscles, confidence |-> confidence]

\* the store into result is a store into the dict of the catalog when
\* result is that dict
StoreThrough(m, key, result) == IF key = <<>> THEN m ELSE DictSet(m, key[1], result)

\* map_exercise_name on a mapper whose catalog is m: the dict it returns
\* and the catalog of its mapper when it returns
NameResult(m, key, result) ==
    [result |-> result, exercise_map |-> StoreThrough(m, key, result)]

NameMapped(m, key, r) == NameResult(m, key, WithConfidence(r.entry, r.confidence))

map_exercise_name(m, name) == NameMapped(m, ReturnedKey(m, name), map_exercise(m, name))

(***************************************************************************)
(* ExerciseMapper.add_mapping, _save_map and _load_map                     *)
(***************************************************************************)
\* muscles or []  (the argument is None when not given)
MusclesOrEmpty(muscles) == IF muscles.given /\ muscles.list # <<>> THEN muscles.list ELSE <<>>

\* the dict add_mapping stores
NewEntry(garmin_name, category, muscles) ==
    [garmin_name |-> garmin_name, garmin_category |-> category, muscles |-> MusclesOrEmpty(muscles)]

\* the in-memory effect of add_mapping
add_mapping(m, name, garmin_name, category, muscles) ==
    DictSet(m, _normalize_name(name), NewEntry(garmin_name, category, muscles))

\* the document _save_map writes
_save_map(m) == [kind |-> "object", exercises |-> m]

\* the mapping _load_map leaves in exercise_map
_load_map(f) == IF f.kind = "object" THEN f.exercises ELSE <<>>

\* _load_map leaves by an exception: the document is valid JSON but not an
\* object, so data.get raises AttributeError, which neither except clause
\* catches
_load_map_raises(f) == f.kind = "array"

\* _save_map leaves by an exception when open or json.dump fails
_save_map_raises(write_ok) == ~write_ok

\* (mutation of add_mapping_raises: the failure of the write is swallowed)
add_mapping_swallows(write_ok) == FALSE

\* add_mapping leaves by an exception when _save_map does: the call at
\* the end of add_mapping is not inside a try
add_mapping_raises(write_ok) == _save_map_raises(write_ok)

(***************************************************************************)
(* Inputs of the catalog operations                                        *)
(***************************************************************************)
MaxKeys == 2

ExerciseNames ==
    { <<"B", "e", "n", "c", "h", " ", "P", "r", "e", "s", "s">> (* 'Bench Press' *),
      <<"p", "r", "e", "s", "s", " ", "b", "e", "n", "c", "h">> (* 'press bench' *),
      <<"B", "e", "n", "c", "h", "-", "P", "r", "e", "s", "s">> (* 'Bench-Press' *),
      <<"p", "u", "l", "l", " ", "u", "p", "s">>                (* 'pull ups' *),
      <<"p", "u", "s", "h", " ", "u", "p">>                     (* 'push up' *),
      <<"a", " ", "!", " ", "b">>                               (* 'a ! b' *) }

PULL_UP == <<"P", "U", "L", "L", "_", "U", "P">>

PUSH_UP == <<"P", "U", "S", "H", "_", "U", "P">>

\* (garmin_name, category, muscles) arguments of add_mapping
AddArgs ==
    { [garmin_name |-> PULL_UP, category |-> "STRENGTH", muscles |-> [given |-> TRUE, list |-> <<"lats">>]],
      [garmin_name |-> PUSH_UP, category |-> "STRENGTH", muscles |-> [given |-> FALSE, list |-> <<>>]] }

\* exercise_map.json with the entries "pull ups" and "push ups"
StoredCatalog ==
    << [k |-> <<"p", "u", "l", "l", " ", "u", "p", "s">>,
        v |-> [garmin_name |-> PULL_UP, garmin_category |-> "STRENGTH", muscles |-> <<"lats">>]],
       [k |-> <<"p", "u", "s", "h", " ", "u", "p", "s">>,
        v |-> [garmin_name |-> PUSH_UP, garmin_category |-> "STRENGTH", muscles |-> <<>>]] >>

\* the states of the file at construction: absent, or a saved document
InitialFiles == {[kind |-> "missing"], _save_map(<<>>), _save_map(StoredCatalog)}

(***************************************************************************)
(* Spec: one ExerciseMapper.  Init is the state after __init__             *)
(* (_load_map); the actions are the calls add_mapping and map_exercise.    *)
(* lastAddOf[key] holds the entry of the most recent add_mapping call      *)
(* whose normalized name is key (empty when there was none); op holds the  *)
(* last call and what it returned.                                         *)
(***************************************************************************)
NormalizedNames == {_normalize_name(n) : n \in ExerciseNames}

Init ==
    /\ file \in InitialFiles
    /\ exercise_map = _load_map(file)
    /\ lastAddOf = [key \in NormalizedNames |-> <<>>]
    /\ op = [kind |-> "init"]

AddMapping(name, a) ==
    /\ DictHas(exercise_map, _normalize_name(name)) \/ Len(exercise_map) < MaxKeys
    /\ exercise_map' = add_mapping(exercise_map, name, a.garmin_name, a.category, a.muscles)
    /\ file' = _save_map(exercise_map')
    /\ lastAddOf' = [lastAddOf EXCEPT ![_normalize_name(name)] =
                                          <<NewEntry(a.garmin_name, a.category, a.muscles)>>]
    /\ op' = [kind |-> "add"]

MapExercise(name) ==
    /\ LET r == map_exercise(exercise_map, name)
       IN  op' = [kind |-> "map", name |-> name, entry |-> r.entry, confidence |-> r.confidence]
    /\ UNCHANGED <<file, exercise_map, lastAddOf>>

Next ==
    \/ \E name \in ExerciseNames, a \in AddArgs : AddMapping(name, a)
    \/ \E name \in ExerciseNames : MapExercise(name)

Spec == Init /\ [][Next]_vars

(***************************************************************************)
(* Properties of the catalog operations (checked under Spec)               *)
(***************************************************************************)
\* the normalized name of the last map_exercise call
Normalized == _normalize_name(op.name)

\* the last map_exercise call found its normalized name as a key
ExactHit == DictHas(exercise_map, Normalized)

\* the integer score of the name of the last map_exercise call against key i
ScoreOfKey(i) == token_sort_ratio(Normalized, exercise_map[i].k)

\* the best integer score over the catalog keys
BestScore == Max({ScoreOfKey(i) : i \in DOMAIN exercise_map})

\* C2: every key of exercise_map is a fixed point of _normalize_name,
\* after loading and after any sequence of add_mapping calls.
C2_KeysNormalized ==
    \A i \in DOMAIN exercise_map : _normalize_name(exercise_map[i].k) = exercise_map[i].k

\* C3: if the last add_mapping whose normalized name equals normalize(N)
\* inserted entry E, map_exercise(N) returns exactly E with confidence 100.
C3_ExactMatchAfterAdd ==
    (op.kind = "map" /\ lastAddOf[Normalized] # <<>>)
        => (op.entry = lastAddOf[Normalized][1] /\ op.confidence = 100)

\* a name that differs from its key was added and then resolved
C3_Witness ==
    /\ op.kind = "map"
    /\ lastAddOf[Normalized] # <<>>
    /\ op.name # Normalized
    /\ op.confidence = 100
    /\ Len(exercise_map) >= 2

\* C4: confidence 100 exactly when normalize(rawName) is a catalog key, and
\* a match that is not exact has a confidence in 70..99.
C4_HundredIffExact ==
    op.kind = "map" =>
        /\ (op.confidence = 100) <=> ExactHit
        /\ (~ExactHit /\ op.confidence # 0) => op.confidence \in 70..99

\* C5: without an exact key, map_exercise returns a best-scoring key's entry
\* with its score when that score is >= 70, otherwise the synthesized
\* UNKNOWN entry with confidence 0; the confidence is never in 1..69.
C5_FuzzyThresholdOrUnknown ==
    op.kind = "map" =>
        /\ ~ExactHit =>
              IF exercise_map # <<>> /\ BestScore >= 70
              THEN /\ op.confidence = BestScore
                   /\ \E i \in DOMAIN exercise_map :
                          ScoreOfKey(i) = BestScore /\ op.entry = exercise_map[i].v
              ELSE /\ op.confidence = 0
                   /\ op.entry = [garmin_name |-> _to_garmin_format(op.name),
                                  garmin_category |-> "UNKNOWN", muscles |-> <<>>]
        /\ op.confidence \notin 1..69

\* a name whose best score against a non-empty catalog is in 60..69 got the
\* synthesized entry
C5_Witness ==
    /\ op.kind = "map"
    /\ exercise_map # <<>>
    /\ ~ExactHit
    /\ BestScore \in 60..69
    /\ op.confidence = 0
    /\ op.entry.garmin_category = "UNKNOWN"

\* the number of times word w occurs in the word list ws
WordCount(ws, w) == Cardinality({i \in DOMAIN ws : ws[i] = w})

\* b has the whitespace-separated words of a, in any order
IsWordPermutation(a, b) ==
    LET wa == SplitWords(a)
        wb == SplitWords(b)
    IN  /\ Len(wa) = Len(wb)
        /\ \A i \in DOMAIN wa : WordCount(wa, wa[i]) = WordCount(wb, wa[i])

\* C6: a name whose normalized form is a word-order permutation of a catalog
\* key resolves to a catalog entry with confidence >= 70, and word-order
\* permutations of a name score the same against every key.
C6_WordOrderSymmetry ==
    op.kind = "map" =>
        /\ (\E i \in DOMAIN exercise_map : IsWordPermutation(Normalized, exercise_map[i].k))
              => /\ op.confidence >= 70
                 /\ \E j \in DOMAIN exercise_map : op.entry = exercise_map[j].v
        /\ \A other \in ExerciseNames :
              IsWordPermutation(Normalized, _normalize_name(other))
                  => \A i \in DOMAIN exercise_map :
                         token_sort_ratio(_normalize_name(other), exercise_map[i].k) = ScoreOfKey(i)

\* a reordering of a key that is not itself a key was resolved
C6_Witness ==
    /\ op.kind = "map"
    /\ ~ExactHit
    /\ \E i \in DOMAIN exercise_map :
           /\ IsWordPermutation(Normalized, exercise_map[i].k)
           /\ Len(SplitWords(Normalized)) >= 2
    /\ op.confidence >= 70

\* the keys (as positions) whose integer score is the top score
TopKeys == {i \in DOMAIN exercise_map : ScoreOfKey(i) = BestScore}

\* the keys (as positions) whose unrounded score no other key exceeds
TopRawKeys ==
    {i \in DOMAIN exercise_map :
        \A j \in DOMAIN exercise_map :
            ~FracLess(RawScore(Normalized, exercise_map[i].k), RawScore(Normalized, exercise_map[j].k))}

At(s, i) == IF i \in DOMAIN s THEN s[i] ELSE "EOS"

\* the position after the longest run of characters satisfying P from i on
RunEnd(s, i, chars) ==
    LET stop == {j \in i..Len(s) : s[j] \notin chars}
    IN  IF stop # {} THEN Min(stop) ELSE IF i > Len(s) THEN i ELSE Len(s) + 1

\* the lower-case literal lit occurs at position i, ignoring case
HasLiteral(s, i, lit) ==
    /\ i >= 1
    /\ i + Len(lit) - 1 <= Len(s)
    /\ \A j \in DOMAIN lit : LowerChar(s[i + j - 1]) = lit[j]

\* int(digits)
RECURSIVE ToInt(_)
ToInt(digits) ==
    IF digits = <<>> THEN 0
    ELSE 10 * ToInt(SubSeq(digits, 1, Len(digits) - 1)) + DigitVal(digits[Len(digits)])

\* [x MULT] under IGNORECASE
IsTimes(c) == c \in {"x", "X", "MULT"}

\* [- ENDASH]
IsDash(c) == c \in {"-", "ENDASH"}

\* [- ENDASH \s]
DashOrSpaceSet == {"-", "ENDASH"} \cup SpaceSet

\* [- ENDASH EMDASH :]
DashOrColonSet == {"-", "ENDASH", "EMDASH", ":"}

\* [- ENDASH EMDASH : \s]
DashColonOrSpaceSet == DashOrColonSet \cup SpaceSet

NoMatch == [ok |-> FALSE]

\* (\d+)\s*[x MULT]\s*(\d+) at position i: [ok, sets, reps, next]
SetsTimesReps(s, i) ==
    LET d1 == RunEnd(s, i, DigitSet)
        w1 == RunEnd(s, d1, SpaceSet)
        w2 == RunEnd(s, w1 + 1, SpaceSet)
        d2 == RunEnd(s, w2, DigitSet)
    IN  IF d1 > i /\ IsTimes(At(s, w1)) /\ d2 > w2
        THEN [ok |-> TRUE, sets |-> ToInt(SubSeq(s, i, d1 - 1)),
              reps |-> ToInt(SubSeq(s, w2, d2 - 1)), next |-> d2]
        ELSE [ok |-> FALSE, next |-> i]

\* [- ENDASH]?(\d+)? at position i: [high, next]
RepRange(s, i) ==
    LET a == IF IsDash(At(s, i)) THEN i + 1 ELSE i
        d3 == RunEnd(s, a, DigitSet)
    IN  [high |-> IF d3 > a THEN <<ToInt(SubSeq(s, a, d3 - 1))>> ELSE <<>>, next |-> d3]

RepsRecord(name, sets, reps, high) ==
    [raw_name |-> Strip(name), sets |-> sets, reps |-> reps, reps_high |-> high, type |-> "reps"]

DurationRecord(name, sets, duration) ==
    [raw_name |-> Strip(name), sets |-> sets, duration_seconds |-> duration, type |-> "duration"]

\* patterns["sets_reps_name"]: ^(\d+)\s*[x MULT]\s*(\d+)[- ENDASH]?(\d+)?\s+(.+)$
MatchSetsRepsName(s) ==
    LET sr == SetsTimesReps(s, 1)
        rr == RepRange(s, sr.next)
        w3 == RunEnd(s, rr.next, SpaceSet)
    IN  IF sr.ok /\ w3 > rr.next /\ w3 <= Len(s)
        THEN [ok |-> TRUE, rec |-> RepsRecord(SubSeq(s, w3, Len(s)), sr.sets, sr.reps, rr.high)]
        ELSE NoMatch

\* the rest of patterns["name_sets_reps"] after the lazy name s[1..k]:
\* [- ENDASH \s]+(\d+)\s*[x MULT]\s*(\d+)[- ENDASH]?(\d+)?$
NameSetsRepsTail(s, k) ==
    LET sep == RunEnd(s, k + 1, DashOrSpaceSet)
        sr == SetsTimesReps(s, sep)
        rr == RepRange(s, sr.next)
    IN  IF sep > k + 1 /\ sr.ok /\ rr.next = Len(s) + 1
        THEN [ok |-> TRUE, rec |-> RepsRecord(SubSeq(s, 1, k), sr.sets, sr.reps, rr.high)]
        ELSE NoMatch

\* patterns["name_sets_reps"]: ^(.+?)[- ENDASH \s]+(\d+)\s*[x MULT]\s*(\d+)[- ENDASH]?(\d+)?$
MatchNameSetsReps(s) ==
    LET ks == {k \in 1..Len(s) : NameSetsRepsTail(s, k).ok}
    IN  IF ks # {} THEN NameSetsRepsTail(s, Min(ks)) ELSE NoMatch

\* the rest of patterns["verbose"] after the lazy name s[1..k]:
\* [- ENDASH EMDASH :]+\s*(\d+)\s*sets?\s*[x MULT ,]\s*(\d+)[- ENDASH]?(\d+)?\s*reps?
VerboseTail(s, k) ==
    LET sep == RunEnd(s, k + 1, DashOrColonSet)
        w0 == RunEnd(s, sep, SpaceSet)
        d1 == RunEnd(s, w0, DigitSet)
        w1 == RunEnd(s, d1, SpaceSet)
        e1 == IF LowerChar(At(s, w1 + 3)) = "s" THEN w1 + 4 ELSE w1 + 3
        w2 == RunEnd(s, e1, SpaceSet)
        w3 == RunEnd(s, w2 + 1, SpaceSet)
        d2 == RunEnd(s, w3, DigitSet)
        rr == RepRange(s, d2)
        w4 == RunEnd(s, rr.next, SpaceSet)
    IN  IF /\ sep > k + 1
           /\ d1 > w0
           /\ HasLiteral(s, w1, <<"s", "e", "t">>)
           /\ (IsTimes(At(s, w2)) \/ At(s, w2) = ",")
           /\ d2 > w3
           /\ HasLiteral(s, w4, <<"r", "e", "p">>)
        THEN [ok |-> TRUE,
              rec |-> RepsRecord(SubSeq(s, 1, k), ToInt(SubSeq(s, w0, d1 - 1)),
                                 ToInt(SubSeq(s, w3, d2 - 1)), rr.high)]
        ELSE NoMatch

\* patterns["verbose"] (a prefix match: the pattern has no $)
MatchVerbose(s) ==
    LET ks == {k \in 1..Len(s) : VerboseTail(s, k).ok}
    IN  IF ks # {} THEN VerboseTail(s, Min(ks)) ELSE NoMatch

\* (?:sec(?:onds?)?|s)
DurationUnits ==
    { <<"s", "e", "c", "o", "n", "d", "s">>, <<"s", "e", "c", "o", "n", "d">>, <<"s", "e", "c">>, <<"s">> }

\* patterns["sets_duration_name"]: ^(\d+)\s*[x MULT]\s*(\d+)\s*(?:sec(?:onds?)?|s)\s+(.+)$
MatchSetsDurationName(s) ==
    LET sr == SetsTimesReps(s, 1)
        w3 == RunEnd(s, sr.next, SpaceSet)
        us == {u \in DurationUnits : HasLiteral(s, w3, u) /\ IsSpace(At(s, w3 + Len(u)))}
        u == CHOOSE v \in us : TRUE
        w4 == RunEnd(s, w3 + Len(u), SpaceSet)
    IN  IF sr.ok /\ us # {} /\ w4 <= Len(s)
        THEN [ok |-> TRUE, rec |-> DurationRecord(SubSeq(s, w4, Len(s)), sr.sets, sr.reps)]
        ELSE NoMatch

\* the rest of patterns["duration"] after the lazy name s[1..k]:
\* [- ENDASH EMDASH : \s]+(\d+)\s*(?:sec(?:onds?)?|s)$
DurationTail(s, k) ==
    LET sep == RunEnd(s, k + 1, DashColonOrSpaceSet)
        d1 == RunEnd(s, sep, DigitSet)
        w1 == RunEnd(s, d1, SpaceSet)
    IN  IF /\ sep > k + 1
           /\ d1 > sep
           /\ \E u \in DurationUnits : HasLiteral(s, w1, u) /\ w1 + Len(u) = Len(s) + 1
        THEN [ok |-> TRUE, rec |-> DurationRecord(SubSeq(s, 1, k), 1, ToInt(SubSeq(s, sep, d1 - 1)))]
        ELSE NoMatch

\* patterns["duration"]: ^(.+?)[- ENDASH EMDASH : \s]+(\d+)\s*(?:sec(?:onds?)?|s)$
MatchDuration(s) ==
    LET ks == {k \in 1..Len(s) : DurationTail(s, k).ok}
    IN  IF ks # {} THEN DurationTail(s, Min(ks)) ELSE NoMatch

\* \s*(?:of\s+)?(.+)$ at position i: the start of the name, 0 if no match
SetsOfNameStart(s, i) ==
    LET w2 == RunEnd(s, i, SpaceSet)
        w3 == RunEnd(s, w2 + 2, SpaceSet)
    IN  IF HasLiteral(s, w2, <<"o", "f">>) /\ w3 > w2 + 2 /\ w3 <= Len(s) THEN w3
        ELSE IF w2 <= Len(s) THEN w2
        ELSE 0

\* patterns["sets_of_name"]: ^(\d+)\s*sets?\s*(?:of\s+)?(.+)$
MatchSetsOfName(s) ==
    LET d1 == RunEnd(s, 1, DigitSet)
        w1 == RunEnd(s, d1, SpaceSet)
        withS == IF LowerChar(At(s, w1 + 3)) = "s" THEN SetsOfNameStart(s, w1 + 4) ELSE 0
        start == IF withS # 0 THEN withS ELSE SetsOfNameStart(s, w1 + 3)
    IN  IF d1 > 1 /\ HasLiteral(s, w1, <<"s", "e", "t">>) /\ start # 0
        THEN [ok |-> TRUE,
              rec |-> [raw_name |-> Strip(SubSeq(s, start, Len(s))),
                       sets |-> ToInt(SubSeq(s, 1, d1 - 1)), reps |-> 10, type |-> "reps"]]
        ELSE NoMatch

\* (mutation of MatchFallback: any line is taken as a name)
MatchFallbackAnyLine(s) ==
    [ok |-> TRUE, rec |-> [raw_name |-> s, sets |-> 3, reps |-> 10, type |-> "reps"]]

\* the fallback: a line longer than 3 characters that does not end in ':'
MatchFallback(s) ==
    IF Len(s) > 3 /\ s[Len(s)] # ":"
    THEN [ok |-> TRUE, rec |-> [raw_name |-> s, sets |-> 3, reps |-> 10, type |-> "reps"]]
    ELSE NoMatch

\* ^warm[\s-]?up  and  ^cool[\s-]?down
HasTwoPartWord(s, first, second) ==
    /\ HasLiteral(s, 1, first)
    /\ \/ HasLiteral(s, Len(first) + 1, second)
       \/ /\ IsSpace(At(s, Len(first) + 1)) \/ At(s, Len(first) + 1) = "-"
          /\ HasLiteral(s, Len(first) + 2, second)

\* one of skip_patterns matches (re.match, IGNORECASE)
MatchesSkipPattern(s) ==
    \/ HasTwoPartWord(s, <<"w", "a", "r", "m">>, <<"u", "p">>)
    \/ HasTwoPartWord(s, <<"c", "o", "o", "l">>, <<"d", "o", "w", "n">>)
    \/ HasLiteral(s, 1, <<"s", "t", "r", "e", "t", "c", "h">>)
    \/ HasLiteral(s, 1, <<"r", "e", "s", "t">>)
    \/ LET d1 == RunEnd(s, 1, DigitSet)
       IN  d1 > 1 /\ HasLiteral(s, RunEnd(s, d1, SpaceSet), <<"m", "i", "n">>)
    \/ s # <<>> /\ \A i \in DOMAIN s : s[i] = "EMDASH"
    \/ s # <<>> /\ \A i \in DOMAIN s : s[i] = "-"

\* the line is skipped: empty, a comment, or a non-exercise line
IsSkipped(s) ==
    \/ s = <<>>
    \/ At(s, 1) = "#"
    \/ At(s, 1) = "/" /\ At(s, 2) = "/"
    \/ MatchesSkipPattern(s)

(***************************************************************************)
(* WorkoutParser.parse_exercise_line                                       *)
(***************************************************************************)
\* (mutation of ClassifyLine: the duration patterns are tried first)
ClassifyLineDurationFirst(s) ==
    IF MatchSetsDurationName(s).ok THEN <<MatchSetsDurationName(s).rec>>
    ELSE IF MatchDuration(s).ok THEN <<MatchDuration(s).rec>>
    ELSE IF MatchSetsRepsName(s).ok THEN <<MatchSetsRepsName(s).rec>>
    ELSE IF MatchNameSetsReps(s).ok THEN <<MatchNameSetsReps(s).rec>>
    ELSE IF MatchVerbose(s).ok THEN <<MatchVerbose(s).rec>>
    ELSE IF MatchSetsOfName(s).ok THEN <<MatchSetsOfName(s).rec>>
    ELSE IF MatchFallback(s).ok THEN <<MatchFallback(s).rec>>
    ELSE <<>>

\* "Try each pattern": the result of the chain of "if not result" blocks,
\* each pattern tried only while the ones before it have not matched;
\* <<>> for None
ClassifyLine(s) ==
    IF MatchSetsRepsName(s).ok THEN <<MatchSetsRepsName(s).rec>>
    ELSE IF MatchNameSetsReps(s).ok THEN <<MatchNameSetsReps(s).rec>>
    ELSE IF MatchVerbose(s).ok THEN <<MatchVerbose(s).rec>>
    ELSE IF MatchSetsDurationName(s).ok THEN <<MatchSetsDurationName(s).rec>>
    ELSE IF MatchDuration(s).ok THEN <<MatchDuration(s).rec>>
    ELSE IF MatchSetsOfName(s).ok THEN <<MatchSetsOfName(s).rec>>
    ELSE IF MatchFallback(s).ok THEN <<MatchFallback(s).rec>>
    ELSE <<>>

\* the result with the fields taken from the mapper's answer
MappedFields(rec, mapped) ==
    rec @@ [garmin_name |-> mapped.entry.garmin_name,
            garmin_category |-> mapped.entry.garmin_category,
            muscles |-> mapped.entry.muscles,
            mapping_confidence |-> mapped.confidence]

\* "Map to Garmin exercise if we got a result"
WithMapping(m, rec) == MappedFields(rec, map_exercise(m, rec.raw_name))

\* the skips, then the patterns, on the stripped line
ClassifyStripped(s) == IF IsSkipped(s) THEN <<>> ELSE ClassifyLine(s)

\* "if result:" the mapping is added
MapResult(m, result) == IF result # <<>> THEN <<WithMapping(m, result[1])>> ELSE <<>>

\* parse_exercise_line with the mapper's catalog m: <<>> for None, <<dict>>
parse_exercise_line(m, line) == MapResult(m, ClassifyStripped(Strip(line)))

(***************************************************************************)
(* WorkoutParser.parse_workout                                             *)
(***************************************************************************)
\* str.split('\n')
RECURSIVE SplitLines(_)
SplitLines(text) ==
    LET breaks == {i \in DOMAIN text : text[i] = "NL"}
    IN  IF breaks = {} THEN <<text>>
        ELSE <<SubSeq(text, 1, Min(breaks) - 1)>> \o SplitLines(SubSeq(text, Min(breaks) + 1, Len(text)))

\* line.endswith(':') or line.startswith('##')
IsSectionHeader(s) == At(s, Len(s)) = ":" \/ (At(s, 1) = "#" /\ At(s, 2) = "#")

\* line.rstrip(':').lstrip('#').strip()
SectionName(s) ==
    LET notColon == {i \in DOMAIN s : s[i] # ":"}
        r == IF notColon = {} THEN <<>> ELSE SubSeq(s, 1, Max(notColon))
        notHash == {i \in DOMAIN r : r[i] # "#"}
        l == IF notHash = {} THEN <<>> ELSE SubSeq(r, Min(notHash), Len(r))
    IN  Strip(l)

\* line.startswith(('- ', 'BULLET ', '* ', '1.', '2.', '3.', '4.', '5.'))
HasListMarker(s) ==
    \/ At(s, 1) \in {"-", "BULLET", "*"} /\ At(s, 2) = " "
    \/ At(s, 1) \in {"1", "2", "3", "4", "5"} /\ At(s, 2) = "."

\* re.sub(r'^[-BULLET*]\s*', '', line)
StripBullet(s) ==
    IF At(s, 1) \in {"-", "BULLET", "*"}
    THEN SubSeq(s, RunEnd(s, 2, SpaceSet), Len(s))
    ELSE s

\* re.sub(r'^\d+\.\s*', '', line)
StripNumber(s) ==
    LET d1 == RunEnd(s, 1, DigitSet)
    IN  IF d1 > 1 /\ At(s, d1) = "."
        THEN SubSeq(s, RunEnd(s, d1 + 1, SpaceSet), Len(s))
        ELSE s

WarningThreshold == 70

\* the warning text names the raw name, the garmin name and the confidence
Warning(exercise) ==
    [raw_name |-> exercise.raw_name, garmin_name |-> exercise.garmin_name,
     confidence |-> exercise.mapping_confidence]

\* "Skip list markers"
WithoutListMarker(line) ==
    IF HasListMarker(line) THEN StripNumber(StripBullet(line)) ELSE line

\* (mutation of AppendExercise: a new warning goes to the front of the list)
AppendExerciseWarningFirst(acc, exercise) ==
    [acc EXCEPT !.exercises = Append(@, exercise),
                !.warnings = IF exercise.mapping_confidence < WarningThreshold
                             THEN <<Warning(exercise)>> \o @ ELSE @]

\* exercises.append(exercise) and the low-confidence warning
AppendExercise(acc, exercise) ==
    [acc EXCEPT !.exercises = Append(@, exercise),
                !.warnings = IF exercise.mapping_confidence < WarningThreshold
                             THEN Append(@, Warning(exercise)) ELSE @]

\* "if exercise:" the section is set and the exercise kept
KeepExercise(acc, parsed) ==
    IF parsed = <<>> THEN acc
    ELSE AppendExercise(acc, parsed[1] @@ [section |-> acc.current_section])

\* (mutation of ParseLine: a header sets the section only while none is set)
ParseLineFirstSection(m, acc, line) ==
    IF IsSectionHeader(line)
    THEN [acc EXCEPT !.current_section = IF @ = <<>> THEN <<SectionName(line)>> ELSE @]
    ELSE KeepExercise(acc, parse_exercise_line(m, WithoutListMarker(line)))

\* one iteration of the loop, on the stripped line
ParseLine(m, acc, line) ==
    IF IsSectionHeader(line)
    THEN [acc EXCEPT !.current_section = <<SectionName(line)>>]
    ELSE KeepExercise(acc, parse_exercise_line(m, WithoutListMarker(line)))

\* the loop over the lines: [exercises, current_section, warnings] after
\* the lines from position i on
RECURSIVE ParseLines(_, _, _, _)
ParseLines(m, lines, i, acc) ==
    IF i > Len(lines) THEN acc
    ELSE ParseLines(m, lines, i + 1, ParseLine(m, acc, Strip(lines[i])))

\* the returned dict
WorkoutDict(name, done) ==
    [name |-> name, exercises |-> done.exercises,
     exercise_count |-> Len(done.exercises), warnings |-> done.warnings]

\* parse_workout with the mapper's catalog m
parse_workout(m, text, name) ==
    WorkoutDict(name, ParseLines(m, SplitLines(Strip(text)), 1,
                                 [exercises |-> <<>>, current_section |-> <<>>, warnings |-> <<>>]))

(***************************************************************************)
(* WorkoutParser.to_garmin_format                                          *)
(***************************************************************************)
\* dict.get(key, default)
Get(dict, key, default) == IF key \in DOMAIN dict THEN dict[key] ELSE default

\* float(n) of an int: the same number, as a float
Float(n) == [float |-> n]

\* the end condition of the work step
EndCondition(exercise) ==
    IF Get(exercise, "type", None) = "duration"
    THEN [conditionTypeId |-> 2, conditionTypeKey |-> "time"]
    ELSE [conditionTypeId |-> 10, conditionTypeKey |-> "reps"]

\* (mutation of EndValue: the reps count whatever the type)
EndValueAlwaysReps(exercise) == Float(Get(exercise, "reps", 10))

\* the end condition value of the work step
EndValue(exercise) ==
    IF Get(exercise, "type", None) = "duration"
    THEN Float(Get(exercise, "duration_seconds", 30))
    ELSE Float(Get(exercise, "reps", 10))

\* the interval step of an exercise
WorkStep(exercise, step_order) ==
    [type |-> "ExecutableStepDTO",
     stepOrder |-> step_order + 1,
     stepType |-> [stepTypeId |-> 3, stepTypeKey |-> "interval"],
     endCondition |-> EndCondition(exercise),
     endConditionValue |-> EndValue(exercise),
     targetType |-> [workoutTargetTypeId |-> 1, workoutTargetTypeKey |-> "no.target"],
     category |-> Get(exercise, "garmin_category", "UNKNOWN"),
     exerciseName |-> Get(exercise, "garmin_name", <<"U", "N", "K", "N", "O", "W", "N">>),
     weightValue |-> None,
     weightUnit |-> [unitId |-> 8, unitKey |-> "kilogram", factor |-> Float(1000)]]

\* the rest step after it
RestStep(step_order) ==
    [type |-> "ExecutableStepDTO",
     stepOrder |-> step_order + 2,
     stepType |-> [stepTypeId |-> 5, stepTypeKey |-> "rest"],
     endCondition |-> [conditionTypeId |-> 1, conditionTypeKey |-> "lap.button"],
     endConditionValue |-> Float(0),
     targetType |-> [workoutTargetTypeId |-> 1, workoutTargetTypeKey |-> "no.target"]]

\* (mutation of RepeatGroup: the default number of sets whatever the exercise)
RepeatGroupDefaultSets(exercise, step_order) ==
    [type |-> "RepeatGroupDTO",
     stepOrder |-> step_order,
     stepType |-> [stepTypeId |-> 6, stepTypeKey |-> "repeat"],
     numberOfIterations |-> 3,
     workoutSteps |-> <<WorkStep(exercise, step_order), RestStep(step_order)>>]

\* the RepeatGroupDTO of an exercise
RepeatGroup(exercise, step_order) ==
    [type |-> "RepeatGroupDTO",
     stepOrder |-> step_order,
     stepType |-> [stepTypeId |-> 6, stepTypeKey |-> "repeat"],
     numberOfIterations |-> Get(exercise, "sets", 3),
     workoutSteps |-> <<WorkStep(exercise, step_order), RestStep(step_order)>>]

\* (mutation of WorkoutSteps: step_order grows by 2)
RECURSIVE WorkoutStepsStrideTwo(_, _, _, _)
WorkoutStepsStrideTwo(exercises, i, step_order, workout_steps) ==
    IF i > Len(exercises) THEN workout_steps
    ELSE WorkoutStepsStrideTwo(exercises, i + 1, step_order + 2,
                               Append(workout_steps, RepeatGroup(exercises[i], step_order)))

\* the loop over workout["exercises"]: workout_steps after the exercises
\* from position i on, step_order growing by 3
RECURSIVE WorkoutSteps(_, _, _, _)
WorkoutSteps(exercises, i, step_order, workout_steps) ==
    IF i > Len(exercises) THEN workout_steps
    ELSE WorkoutSteps(exercises, i + 1, step_order + 3,
                      Append(workout_steps, RepeatGroup(exercises[i], step_order)))

StrengthTraining == [sportTypeId |-> 5, sportTypeKey |-> "strength_training"]

\* to_garmin_format(workout)
to_garmin_format(workout) ==
    [workoutName |-> workout.name,
     description |-> <<"Created via GarminCoach. ", Len(workout.exercises), " exercises.">>,
     sportType |-> StrengthTraining,
     workoutSegments |->
         << [segmentOrder |-> 1,
             sportType |-> StrengthTraining,
             workoutSteps |-> WorkoutSteps(workout.exercises, 1, 1, <<>>)] >>]

(***************************************************************************)
(* Bounded universes of strings                                            *)
(***************************************************************************)
MaxNameLen == 3

NormAlphabet == {"a", "B", " ", "TAB", "!", "-"}

StringsUpTo(A, n) == UNION {[1..k -> A] : k \in 0..n}

NormInputs == StringsUpTo(NormAlphabet, MaxNameLen)

(***************************************************************************)
(* SpecNormalize: _normalize_name as a pure function.  The input is drawn  *)
(* in Init; Normalize applies the function to the input and once more to   *)
(* its own output.                                                         *)
(***************************************************************************)
InitNormalize ==
    /\ file = None
    /\ exercise_map = <<>>
    /\ lastAddOf = <<>>
    /\ op \in {[kind |-> "input", name |-> s] : s \in NormInputs}

Normalize ==
    /\ op.kind = "input"
    /\ op' = [kind |-> "normalize", name |-> op.name,
              once |-> _normalize_name(op.name),
              twice |-> _normalize_name(_normalize_name(op.name))]
    /\ UNCHANGED <<file, exercise_map, lastAddOf>>

NextNormalize == Normalize

SpecNormalize == InitNormalize /\ [][NextNormalize]_vars

\* C1: _normalize_name is idempotent: normalizing a normalized name
\* changes nothing, for every input string.
C1_NormalizeIdempotent ==
    op.kind = "normalize" => op.twice = op.once

(***************************************************************************)
(* The parser over exercise lines and workout texts                        *)
(***************************************************************************)
\* the pieces exercise lines are composed of
ParseCounts == {<<"2">>, <<"3", "0">>}

ParseGaps == {<<>>, <<" ">>}

TimesSigns == {<<"x">>, <<"MULT">>}

\* <<>> stands for no unit at all: a plain sets x reps line
UnitWords == {<<>>, <<"s", "e", "c">>, <<"s">>}

DEAD_HANG == <<"D", "e", "a", "d", " ", "h", "a", "n", "g">>

ExerciseWords == {DEAD_HANG, <<"P", "u", "l", "l", "-", "u", "p", "s">>}

NameSeparators == {<<" ">>, <<" ", "EMDASH", " ">>, <<":", " ">>}

\* "2x30 Dead hang", "2 MULT 30 sec Dead hang", "2x30s Dead hang", ...
CountFirstLines ==
    {c1 \o x \o c2 \o g \o u \o <<" ">> \o n :
        c1 \in ParseCounts, x \in TimesSigns, c2 \in ParseCounts,
        g \in ParseGaps, u \in UnitWords, n \in ExerciseWords}

\* "Dead hang 2x30", "Dead hang: 2x30", ...
NameFirstLines ==
    {n \o d \o c1 \o <<"x">> \o c2 :
        n \in ExerciseWords, d \in NameSeparators, c1 \in ParseCounts, c2 \in ParseCounts}

\* "Dead hang: 2 sets x 30 reps", ...
VerboseLines ==
    {n \o d \o c1 \o <<" ", "s", "e", "t", "s", " ", "x", " ">> \o c2 \o <<" ", "r", "e", "p", "s">> :
        n \in ExerciseWords, d \in NameSeparators, c1 \in ParseCounts, c2 \in ParseCounts}

\* "Dead hang 30 sec", "Dead hang: 30s", ...
DurationLines ==
    {n \o d \o c2 \o g \o u :
        n \in ExerciseWords, d \in NameSeparators, c2 \in ParseCounts,
        g \in ParseGaps, u \in UnitWords \ {<<>>}}

\* "2 sets of Dead hang", ...
SetsOfLines ==
    {c1 \o <<" ", "s", "e", "t", "s", " ", "o", "f", " ">> \o n :
        c1 \in ParseCounts, n \in ExerciseWords}

\* bare names, short names, headers and the lines the parser skips
OtherLines ==
    { <<"D", "i", "p", "s">>, <<"a", "b", "c">>, <<"M", "a", "i", "n", ":">>,
      <<>>, <<" ">>, <<"#", " ", "n", "o", "t", "e">>, <<"/", "/", "x">>,
      <<"W", "a", "r", "m", " ", "u", "p">>, <<"c", "o", "o", "l", "-", "d", "o", "w", "n">>,
      <<"S", "t", "r", "e", "t", "c", "h">>, <<"r", "e", "s", "t">>,
      <<"R", "e", "s", "t", "o", "r", "a", "t", "i", "v", "e", " ", "y", "o", "g", "a">>,
      <<"5", " ", "m", "i", "n">>, <<"EMDASH">>, <<"-", "-">> }

\* lines whose set count is written as 0, one for each pattern with a
\* set count
ZeroSetsLines ==
    { <<"0", "x", "8", " ", "P", "u", "l", "l", "-", "u", "p", "s">>,
      <<"P", "u", "l", "l", "-", "u", "p", "s", " ", "0", "x", "8">>,
      <<"P", "u", "l", "l", "-", "u", "p", "s", ":", " ", "0", " ", "s", "e", "t", "s", " ",
        "x", " ", "8", " ", "r", "e", "p", "s">>,
      <<"0", "x", "3", "0", " ", "s", "e", "c", " ", "D", "e", "a", "d", " ", "h", "a", "n", "g">>,
      <<"0", " ", "s", "e", "t", "s", " ", "o", "f", " ", "P", "u", "s", "h", "-", "u", "p", "s">> }

\* lines with a rep range, ascending, descending and equal, one for each
\* pattern with a rep range
RangeLines ==
    { <<"4", "x", "1", "0", "-", "8", " ", "D", "i", "p", "s">> (* '4x10-8 Dips' *),
      <<"4", "x", "8", "-", "1", "0", " ", "D", "i", "p", "s">> (* '4x8-10 Dips' *),
      <<"D", "i", "p", "s", " ", "4", "x", "1", "0", "-", "8">> (* 'Dips 4x10-8' *),
      <<"D", "i", "p", "s", ":", " ", "4", " ", "s", "e", "t", "s", " ", "x", " ", "1", "0", "-", "8", " ", "r", "e", "p", "s">> (* 'Dips: 4 sets x 10-8 reps' *),
      <<"4", "x", "8", "-", "8", " ", "D", "i", "p", "s">> (* '4x8-8 Dips' *) }

LineInputs ==
    CountFirstLines \cup NameFirstLines \cup VerboseLines \cup DurationLines
        \cup SetsOfLines \cup OtherLines \cup ZeroSetsLines \cup RangeLines

\* '<S> MULT <D> sec <name>' and '<S>x<D> sec <name>'
SetsDurationText(c1, x, c2, n) == c1 \o x \o c2 \o <<" ", "s", "e", "c", " ">> \o n

SetsDurationTexts ==
    {SetsDurationText(c1, x, c2, n) :
        c1 \in ParseCounts, x \in TimesSigns, c2 \in ParseCounts, n \in ExerciseWords}

\* '4x8 Pull-ups\n3x12 Push-ups'
PullPushText ==
    <<"4", "x", "8", " ", "P", "u", "l", "l", "-", "u", "p", "s", "NL",
      "3", "x", "1", "2", " ", "P", "u", "s", "h", "-", "u", "p", "s">>

\* 'Dips\nUpper:\n4x8 Pull-ups\n## Core\n4x8 Pull-ups:\nDead hang EMDASH 30 sec\n- Main:\n* Dips'
SectionsText ==
    <<"D", "i", "p", "s", "NL", "U", "p", "p", "e", "r", ":", "NL", "4", "x", "8", " ", "P", "u", "l", "l", "-", "u", "p", "s", "NL", "#", "#", " ", "C", "o", "r", "e", "NL", "4", "x", "8", " ", "P", "u", "l", "l", "-", "u", "p", "s", ":", "NL", "D", "e", "a", "d", " ", "h", "a", "n", "g", " ", "EMDASH", " ", "3", "0", " ", "s", "e", "c", "NL", "-", " ", "M", "a", "i", "n", ":", "NL", "*", " ", "D", "i", "p", "s">>

\* list markers: the three bullets, and numbers with a dot
ListMarkers ==
    { <<"-", " ">> (* '- ' *),
      <<"BULLET", " ">> (* 'BULLET ' *),
      <<"*", " ">> (* '* ' *),
      <<"1", ".", " ">> (* '1. ' *),
      <<"3", ".">> (* '3.' *),
      <<"6", ".", " ">> (* '6. ' *),
      <<"1", "2", ".", " ">> (* '12. ' *) }

\* line bodies put after a list marker
MarkerBodies ==
    { <<"D", "i", "p", "s">> (* 'Dips' *),
      <<"4", "x", "8", " ", "P", "u", "l", "l", "-", "u", "p", "s">> (* '4x8 Pull-ups' *),
      <<"D", "e", "a", "d", " ", "h", "a", "n", "g", " ", "EMDASH", " ", "3", "0", " ", "s", "e", "c">> (* 'Dead hang EMDASH 30 sec' *) }

\* one-line texts: a list marker and a body
MarkedTexts == {mark \o body : mark \in ListMarkers, body \in MarkerBodies}

TextInputs ==
    SetsDurationTexts \cup MarkedTexts \cup
    { PullPushText, SectionsText,
      (* '2x30sec Dead hang' *)
      <<"2", "x", "3", "0", "s", "e", "c", " ", "D", "e", "a", "d", " ", "h", "a", "n", "g">>,
      (* 'Upper:\n- 4x8 Pull-ups\n2. 3x12 Push-ups\nBULLET Dips' *)
      <<"U", "p", "p", "e", "r", ":", "NL", "-", " ", "4", "x", "8", " ", "P", "u", "l", "l", "-", "u", "p", "s", "NL",
        "2", ".", " ", "3", "x", "1", "2", " ", "P", "u", "s", "h", "-", "u", "p", "s", "NL", "BULLET", " ", "D", "i", "p", "s">>,
      (* '## Core\n6. Dead hang EMDASH 30 sec\n\nrest' *)
      <<"#", "#", " ", "C", "o", "r", "e", "NL", "6", ".", " ", "D", "e", "a", "d", " ", "h", "a", "n", "g", " ",
        "EMDASH", " ", "3", "0", " ", "s", "e", "c", "NL", "NL", "r", "e", "s", "t">>,
      (* 'Dips\n4x8 Pull-ups\nDead hang EMDASH 30 sec\n3x12 Push-ups' *)
      <<"D", "i", "p", "s", "NL", "4", "x", "8", " ", "P", "u", "l", "l", "-", "u", "p", "s", "NL",
        "D", "e", "a", "d", " ", "h", "a", "n", "g", " ", "EMDASH", " ", "3", "0", " ", "s", "e", "c", "NL",
        "3", "x", "1", "2", " ", "P", "u", "s", "h", "-", "u", "p", "s">> }

\* the default of parse_workout's name argument
DefaultWorkoutName == <<"W", "o", "r", "k", "o", "u", "t">>

\* WorkoutParser(): the mapper loads the catalog from the file; the call
\* to come is a line for parse_exercise_line or a text for parse_workout
InitParse ==
    /\ file \in InitialFiles
    /\ exercise_map = _load_map(file)
    /\ lastAddOf = [key \in NormalizedNames |-> <<>>]
    /\ op \in {[kind |-> "line", line |-> l] : l \in LineInputs}
                \cup {[kind |-> "text", text |-> t] : t \in TextInputs}

ParseExerciseLine ==
    /\ op.kind = "line"
    /\ op' = [kind |-> "parse_line", line |-> op.line,
              result |-> parse_exercise_line(exercise_map, op.line)]
    /\ UNCHANGED <<file, exercise_map, lastAddOf>>

ParseWorkout ==
    /\ op.kind = "text"
    /\ op' = [kind |-> "parse_workout", text |-> op.text,
              workout |-> parse_workout(exercise_map, op.text, DefaultWorkoutName)]
    /\ UNCHANGED <<file, exercise_map, lastAddOf>>

\* to_garmin_format on the workout that parse_workout returned
ToGarminFormat ==
    /\ op.kind = "parse_workout"
    /\ op' = [kind |-> "to_garmin", text |-> op.text, workout |-> op.workout,
              garmin |-> to_garmin_format(op.workout)]
    /\ UNCHANGED <<file, exercise_map, lastAddOf>>

NextParse ==
    \/ ParseExerciseLine
    \/ ParseWorkout
    \/ ToGarminFormat

SpecParse == InitParse /\ [][NextParse]_vars

\* the first rule, in the documented order, whose pattern matches the
\* stripped line s
FirstRule(s) ==
    IF IsSkipped(s) THEN "skip"
    ELSE IF MatchSetsRepsName(s).ok THEN "sets_reps_name"
    ELSE IF MatchNameSetsReps(s).ok THEN "name_sets_reps"
    ELSE IF MatchVerbose(s).ok THEN "verbose"
    ELSE IF MatchSetsDurationName(s).ok THEN "sets_duration_name"
    ELSE IF MatchDuration(s).ok THEN "duration"
    ELSE IF MatchSetsOfName(s).ok THEN "sets_of_name"
    ELSE IF MatchFallback(s).ok THEN "fallback"
    ELSE "none"

\* the record a rule builds from the stripped line s
RuleRecord(rule, s) ==
    CASE rule = "sets_reps_name" -> MatchSetsRepsName(s).rec
      [] rule = "name_sets_reps" -> MatchNameSetsReps(s).rec
      [] rule = "verbose" -> MatchVerbose(s).rec
      [] rule = "sets_duration_name" -> MatchSetsDurationName(s).rec
      [] rule = "duration" -> MatchDuration(s).rec
      [] rule = "sets_of_name" -> MatchSetsOfName(s).rec
      [] rule = "fallback" -> MatchFallback(s).rec

\* the last parse_exercise_line call had a line that both the
\* sets x reps name and the sets x duration name patterns match
MatchesRepsAndDuration ==
    /\ op.kind = "parse_line"
    /\ ~IsSkipped(Strip(op.line))
    /\ MatchSetsRepsName(Strip(op.line)).ok
    /\ MatchSetsDurationName(Strip(op.line)).ok

NoEntryResembles(name) ==
    \A i \in DOMAIN exercise_map :
        token_sort_ratio(_normalize_name(name), exercise_map[i].k) < ConfidenceThreshold

\* C9: a text '<S> MULT <D> sec <name>', with no catalog entry resembling
\* <name>, parses through parse_workout to exactly one exercise of type
\* duration with sets S, duration_seconds D, raw name <name>, confidence 0,
\* garmin name the upper-snake form of <name>, category UNKNOWN, and
\* exactly one warning.
C9_SetsDurationScenario ==
    \A c1 \in ParseCounts, c2 \in ParseCounts, n \in ExerciseWords :
        ( /\ op.kind = "parse_workout"
          /\ op.text = SetsDurationText(c1, <<"MULT">>, c2, n)
          /\ NoEntryResembles(n) )
        => /\ Len(op.workout.exercises) = 1
           /\ op.workout.exercises[1].type = "duration"
           /\ op.workout.exercises[1].sets = ToInt(c1)
           /\ op.workout.exercises[1].duration_seconds = ToInt(c2)
           /\ op.workout.exercises[1].raw_name = n
           /\ op.workout.exercises[1].mapping_confidence = 0
           /\ op.workout.exercises[1].garmin_name = _to_garmin_format(n)
           /\ op.workout.exercises[1].garmin_category = "UNKNOWN"
           /\ Len(op.workout.warnings) = 1

\* the catalog holds 'pull ups' -> PULL_UP and 'push ups' -> PUSH_UP
HasPullAndPush ==
    /\ DictHas(exercise_map, <<"p", "u", "l", "l", " ", "u", "p", "s">>)
    /\ DictGet(exercise_map, <<"p", "u", "l", "l", " ", "u", "p", "s">>).garmin_name = PULL_UP
    /\ DictHas(exercise_map, <<"p", "u", "s", "h", " ", "u", "p", "s">>)
    /\ DictGet(exercise_map, <<"p", "u", "s", "h", " ", "u", "p", "s">>).garmin_name = PUSH_UP

WorkoutLines ==
    LET lines == SplitLines(Strip(op.text))
    IN  [i \in DOMAIN lines |-> Strip(lines[i])]

\* what line i of the text contributes by itself: <<>> for a header
\* or a line that gives no record, else <<record>>
LineRecord(i) ==
    IF IsSectionHeader(WorkoutLines[i]) THEN <<>>
    ELSE parse_exercise_line(exercise_map, WithoutListMarker(WorkoutLines[i]))

\* the positions of the lines that give a record
RecordLines == {i \in DOMAIN WorkoutLines : LineRecord(i) # <<>>}

\* the j-th smallest element of a set of numbers
Nth(S, j) == CHOOSE n \in S : Cardinality({k \in S : k < n}) = j - 1

\* the positions in the exercises list whose confidence is below 70
LowConfidence == {j \in DOMAIN op.workout.exercises : op.workout.exercises[j].mapping_confidence < 70}

\* C11: parse_workout returns the records of the lines in input line
\* order, and a warnings list that holds exactly one warning for each
\* record with mapping_confidence < 70, in the order of the records; so
\* the list is non-empty iff some record has mapping_confidence < 70.
C11_WarningsInvariant ==
    op.kind = "parse_workout" =>
        LET w == op.workout
        IN  /\ Len(w.exercises) = Cardinality(RecordLines)
            /\ \A j \in DOMAIN w.exercises :
                   /\ w.exercises[j].raw_name = LineRecord(Nth(RecordLines, j))[1].raw_name
                   /\ w.exercises[j].sets = LineRecord(Nth(RecordLines, j))[1].sets
                   /\ w.exercises[j].mapping_confidence = LineRecord(Nth(RecordLines, j))[1].mapping_confidence
            /\ (w.warnings # <<>>) <=> (LowConfidence # {})
            /\ Len(w.warnings) = Cardinality(LowConfidence)
            /\ \A k \in DOMAIN w.warnings :
                   w.warnings[k] = Warning(w.exercises[Nth(LowConfidence, k)])

\* a text gave two records below 70 with a confident record between them
C11_Witness ==
    /\ op.kind = "parse_workout"
    /\ \E a, b, c \in DOMAIN op.workout.exercises :
           /\ a < b /\ b < c
           /\ {a, c} \subseteq LowConfidence
           /\ b \notin LowConfidence
    /\ Len(op.workout.warnings) = 2

\* the RepeatGroups of the last to_garmin_format call
Groups == op.garmin.workoutSegments[1].workoutSteps

\* C12: to_garmin_format of a parsed workout with K exercises gives
\* exactly K RepeatGroups in exercise order, each holding one work
\* (interval) step followed by one rest step, the i-th with
\* numberOfIterations equal to the sets of the i-th exercise.
C12_StepStructureShape ==
    op.kind = "to_garmin" =>
        /\ Len(op.garmin.workoutSegments) = 1
        /\ Len(Groups) = Len(op.workout.exercises)
        /\ \A i \in DOMAIN Groups :
               /\ Groups[i].type = "RepeatGroupDTO"
               /\ Groups[i].stepType.stepTypeKey = "repeat"
               /\ Len(Groups[i].workoutSteps) = 2
               /\ Groups[i].workoutSteps[1].stepType.stepTypeKey = "interval"
               /\ Groups[i].workoutSteps[2].stepType.stepTypeKey = "rest"
               /\ Groups[i].workoutSteps[1].exerciseName = op.workout.exercises[i].garmin_name
               /\ Groups[i].numberOfIterations = op.workout.exercises[i].sets

\* a workout with several exercises of different sets was converted
C12_Witness ==
    /\ op.kind = "to_garmin"
    /\ Len(Groups) >= 3
    /\ \E i, j \in DOMAIN Groups : Groups[i].numberOfIterations # Groups[j].numberOfIterations

\* C13: the work step of an exercise of type reps ends on a reps
\* condition whose value is the exercise's reps, the work step of an
\* exercise of type duration ends on a time condition whose value is its
\* duration_seconds, and every rest step ends on the lap button.
C13_EndConditions ==
    op.kind = "to_garmin" =>
        \A i \in DOMAIN Groups :
            LET exercise == op.workout.exercises[i]
                work == Groups[i].workoutSteps[1]
                rest == Groups[i].workoutSteps[2]
            IN  /\ exercise.type = "reps" =>
                       /\ work.endCondition.conditionTypeKey = "reps"
                       /\ work.endConditionValue = Float(exercise.reps)
                /\ exercise.type = "duration" =>
                       /\ work.endCondition.conditionTypeKey = "time"
                       /\ work.endConditionValue = Float(exercise.duration_seconds)
                /\ exercise.type \in {"reps", "duration"}
                /\ rest.endCondition.conditionTypeKey = "lap.button"

\* a workout with a reps exercise and a duration exercise was converted
C13_Witness ==
    /\ op.kind = "to_garmin"
    /\ \E i, j \in DOMAIN Groups :
           /\ op.workout.exercises[i].type = "reps"
           /\ op.workout.exercises[j].type = "duration"
           /\ Groups[j].workoutSteps[1].endConditionValue = Float(30)
           /\ Groups[i].workoutSteps[1].endConditionValue # Float(10)

\* one of the six patterns matches the stripped line s
AnyPatternMatches(s) ==
    \/ MatchSetsRepsName(s).ok
    \/ MatchNameSetsReps(s).ok
    \/ MatchVerbose(s).ok
    \/ MatchSetsDurationName(s).ok
    \/ MatchDuration(s).ok
    \/ MatchSetsOfName(s).ok

\* the stripped line s has at most 3 characters or ends with ':'
ShortOrHeader(s) == Len(s) <= 3 \/ At(s, Len(s)) = ":"

\* C14 (as stated): parse_exercise_line returns nothing only for the
\* lines of the skip rule; every other line produces a record.
C14_FallbackTotality ==
    op.kind = "parse_line" =>
        (op.result = <<>> <=> IsSkipped(Strip(op.line)))

\* C14 (amended): parse_exercise_line returns nothing exactly for the
\* lines of the skip rule and for the lines that match no pattern and
\* have at most 3 characters or end with ':'; every other line produces
\* a record.
C14_FallbackExceptShortOrHeader ==
    op.kind = "parse_line" =>
        LET s == Strip(op.line)
        IN  op.result = <<>> <=>
                \/ IsSkipped(s)
                \/ ~AnyPatternMatches(s) /\ ShortOrHeader(s)

\* a line outside the skip rule, short or a header, gave no record
C14_Witness ==
    /\ op.kind = "parse_line"
    /\ ~IsSkipped(Strip(op.line))
    /\ ~AnyPatternMatches(Strip(op.line))
    /\ ShortOrHeader(Strip(op.line))
    /\ op.result = <<>>

(***************************************************************************)
(* SpecStorage: the mapper over a file that may be missing or corrupt and  *)
(* a write that may fail.  The file is absent ("missing"), not JSON        *)
(* ("malformed"), JSON whose top level is not an object ("array"), an      *)
(* object without the "exercises" key, or a saved document.                *)
(***************************************************************************)
StorageFiles ==
    InitialFiles \cup
        {[kind |-> "malformed"], [kind |-> "array"], [kind |-> "object_without_exercises"]}

\* the names used with the storage
StorageNames ==
    { <<"p", "u", "l", "l", " ", "u", "p", "s">>,
      <<"B", "e", "n", "c", "h", " ", "P", "r", "e", "s", "s">>,
      <<"p", "r", "e", "s", "s", " ", "b", "e", "n", "c", "h">> }

\* the queries and limits used with search (5 is the default limit)
SearchQueries ==
    { <<"B", "e", "n", "c", "h", " ", "P", "r", "e", "s", "s">>, <<"u", "p", "s">> }

SearchLimits == {1, 5}

\* before ExerciseMapper(map_file) is called
InitStorage ==
    /\ file \in StorageFiles
    /\ exercise_map = <<>>
    /\ lastAddOf = [key \in NormalizedNames |-> <<>>]
    /\ op = [kind |-> "new"]

\* ExerciseMapper(map_file): exercise_map = {} and then _load_map
Construct ==
    /\ op.kind = "new"
    /\ exercise_map' = IF _load_map_raises(file) THEN <<>> ELSE _load_map(file)
    /\ op' = [kind |-> "construct", raised |-> _load_map_raises(file)]
    /\ UNCHANGED <<file, lastAddOf>>

\* the constructor has returned a mapper
Constructed == op.kind # "new" /\ ~(op.kind = "construct" /\ op.raised)

\* (mutation of add_mapping_failed: the assignment is undone when the write
\* fails)
add_mapping_rolled_back(m, name, garmin_name, category, muscles) == m

\* the in-memory catalog when add_mapping leaves by the exception of
\* _save_map: the assignment self.exercise_map[normalized] = {...} has been
\* executed and nothing undoes it
add_mapping_failed(m, name, garmin_name, category, muscles) ==
    add_mapping(m, name, garmin_name, category, muscles)

\* the stored document f holds entry under the key of name
Holds(f, name, entry) ==
    /\ DictHas(_load_map(f), _normalize_name(name))
    /\ DictGet(_load_map(f), _normalize_name(name)) = entry

\* what op holds of an add_mapping call whose write failed: the name, the
\* entry, and whether the storage held that entry before the call
FailedAdd(name, entry, held) ==
    [kind |-> "add_write_failed", raised |-> add_mapping_raises(FALSE),
     name |-> name, entry |-> entry, held_before |-> held]

\* add_mapping with a write that fails: the entry is already in
\* exercise_map; the file is as it was when open failed, and cut short when
\* json.dump failed
AddMappingWriteFails(name, a, opened) ==
    /\ Constructed
    /\ DictHas(exercise_map, _normalize_name(name)) \/ Len(exercise_map) < MaxKeys
    /\ exercise_map' = add_mapping_failed(exercise_map, name, a.garmin_name, a.category, a.muscles)
    /\ file' = IF opened THEN [kind |-> "malformed"] ELSE file
    /\ lastAddOf' = [lastAddOf EXCEPT ![_normalize_name(name)] =
                                          <<NewEntry(a.garmin_name, a.category, a.muscles)>>]
    /\ op' = FailedAdd(name, NewEntry(a.garmin_name, a.category, a.muscles),
                       Holds(file, name, NewEntry(a.garmin_name, a.category, a.muscles)))

\* what op holds of a call of map_exercise_name
NameCall(name, loaded, r) ==
    [kind |-> "map_exercise_name", name |-> name, loaded |-> loaded,
     result |-> r.result, exercise_map |-> r.exercise_map]

\* map_exercise_name(name): a mapper of its own, loaded from the file; op
\* holds the catalog it loaded and the catalog it holds at the return
MapExerciseName(name) ==
    /\ Constructed
    /\ ~_load_map_raises(file)
    /\ op' = NameCall(name, _load_map(file), map_exercise_name(_load_map(file), name))
    /\ UNCHANGED <<file, exercise_map, lastAddOf>>

\* search(query, limit); op holds the list it returned
Search(query, limit) ==
    /\ Constructed
    /\ op' = [kind |-> "search", query |-> query, limit |-> limit,
              matches |-> search(exercise_map, query, limit)]
    /\ UNCHANGED <<file, exercise_map, lastAddOf>>

NextStorage ==
    \/ Construct
    \/ \E query \in SearchQueries, limit \in SearchLimits : Search(query, limit)
    \/ \E name \in StorageNames : MapExerciseName(name)
    \/ \E name \in StorageNames, a \in AddArgs : Constructed /\ AddMapping(name, a)
    \/ \E name \in StorageNames, a \in AddArgs, opened \in BOOLEAN :
           AddMappingWriteFails(name, a, opened)
    \/ \E name \in StorageNames : Constructed /\ MapExercise(name)

SpecStorage == InitStorage /\ [][NextStorage]_vars

\* no add_mapping call has been made
NoAddYet == \A key \in DOMAIN lastAddOf : lastAddOf[key] = <<>>

\* the file is absent or corrupt
MissingOrCorrupt == file.kind \in {"missing", "malformed", "array"}

\* C15: constructing the mapper over a file that is absent, malformed or
\* not the expected top-level mapping never raises and leaves the catalog
\* empty, and map_exercise then returns confidence 0 and category UNKNOWN
\* for every name.
C15_LoadNeverFails ==
    /\ (op.kind = "construct" /\ MissingOrCorrupt) =>
           (~op.raised /\ exercise_map = <<>>)
    /\ (op.kind = "map" /\ MissingOrCorrupt /\ NoAddYet) =>
           (op.confidence = 0 /\ op.entry.garmin_category = "UNKNOWN")

\* C16: whenever the write of add_mapping fails, add_mapping raises to its
\* caller; it never returns normally after a failed write.
C16_WriteFailureSurfaced ==
    op.kind = "add_write_failed" => op.raised

\* an add_mapping call whose write failed, in both ways: the file untouched
\* and the file cut short
C16_Witness ==
    /\ op.kind = "add_write_failed"
    /\ op.raised
    /\ exercise_map # <<>>
    /\ file.kind \in {"missing", "malformed"}

\* the entries a document holds: <<>> unless it is a saved document
StoredEntries(f) == IF f.kind = "object" THEN f.exercises ELSE <<>>

\* every entry of document f is in document g, unchanged, except for key
KeptExcept(f, g, key) ==
    \A i \in DOMAIN StoredEntries(f) :
        StoredEntries(f)[i].k # key =>
            /\ DictHas(StoredEntries(g), StoredEntries(f)[i].k)
            /\ DictGet(StoredEntries(g), StoredEntries(f)[i].k) = StoredEntries(f)[i].v

\* C17: after load, every add_mapping call and its save leave in storage
\* every stored entry but the one under a key that has been the target of
\* an add, with the same garmin name, category and muscles, and no other
\* call changes the storage; so an entry whose key was never the target of
\* an add stays in storage as it was.
C17_StorageRoundTrip ==
    [][ /\ op'.kind = "add" =>
               \E key \in NormalizedNames :
                   lastAddOf'[key] # <<>> /\ KeptExcept(file, file', key)
        /\ op'.kind # "add" => file' = file ]_vars

\* a loaded document, after adds that wrote 'pull ups' anew: the entry
\* 'push ups' is still stored as it was
C17_Witness ==
    /\ op.kind = "add"
    /\ lastAddOf[<<"p", "u", "l", "l", " ", "u", "p", "s">>] # <<>>
    /\ DictHas(StoredEntries(file), <<"p", "u", "l", "l", " ", "u", "p", "s">>)
    /\ DictGet(StoredEntries(file), <<"p", "u", "l", "l", " ", "u", "p", "s">>).garmin_name = PUSH_UP
    /\ DictHas(StoredEntries(file), <<"p", "u", "s", "h", " ", "u", "p", "s">>)
    /\ DictGet(StoredEntries(file), <<"p", "u", "s", "h", " ", "u", "p", "s">>)
           = DictGet(StoredCatalog, <<"p", "u", "s", "h", " ", "u", "p", "s">>)

\* C18: catalog entries are immutable once returned: when
\* map_exercise_name returns, after adding 'confidence' to the dict that
\* map_exercise returned, the catalog of its mapper holds the entries it
\* loaded, unchanged.
C18_ReturnedEntriesImmutable ==
    op.kind = "map_exercise_name" => op.exercise_map = op.loaded

\* the position of a key in the catalog (insertion order)
KeyIndex(key) == CHOOSE i \in DOMAIN exercise_map : exercise_map[i].k = key

\* the unrounded similarity of the key to the normalized query of the
\* last search
SearchRaw(key) == RawScore(_normalize_name(op.query), key)

\* the keys of the result of the last search
Found == {op.matches[r][1] : r \in DOMAIN op.matches}

\* what holds of every search result whatever the order of equal scores:
\* at most limit pairs, all there are when the catalog has no more than
\* limit keys; each pair is a key of the catalog, no key twice, with its
\* similarity to the normalized query; scores descending; no key left out
\* scores higher than a key returned; nothing from an empty catalog
SearchRanking ==
    /\ Len(op.matches) = (IF op.limit < Len(exercise_map) THEN op.limit ELSE Len(exercise_map))
    /\ \A r \in DOMAIN op.matches :
           /\ DictHas(exercise_map, op.matches[r][1])
           /\ op.matches[r][2] = token_sort_ratio(_normalize_name(op.query), op.matches[r][1])
           /\ \A q \in DOMAIN op.matches : q < r =>
                  /\ op.matches[q][1] # op.matches[r][1]
                  /\ op.matches[q][2] >= op.matches[r][2]
    /\ \A i \in DOMAIN exercise_map : exercise_map[i].k \notin Found =>
           \A key \in Found : ~FracLess(SearchRaw(key), SearchRaw(exercise_map[i].k))
    /\ exercise_map = <<>> => op.matches = <<>>

C20_SetsPositive ==
    (op.kind = "parse_line" /\ op.result # <<>>) => op.result[1].sets >= 1

\* C21: every reps record returned by parse_exercise_line that carries a
\* rep-range upper bound has reps_high >= reps.
C21_RepRangeOrdered ==
    (op.kind = "parse_line" /\ op.result # <<>> /\ op.result[1].type = "reps"
        /\ "reps_high" \in DOMAIN op.result[1] /\ op.result[1].reps_high # <<>>)
    => op.result[1].reps_high[1] >= op.result[1].reps

\* the positions of the header lines before line n of the text
HeadersBefore(n) == {i \in DOMAIN WorkoutLines : i < n /\ IsSectionHeader(WorkoutLines[i])}

\* the section in force at line n: that of the most recent header line
\* before it, none when no header precedes it
SectionAt(n) ==
    IF HeadersBefore(n) = {} THEN <<>>
    ELSE <<SectionName(WorkoutLines[Max(HeadersBefore(n))])>>

\* the positions of the lines that are no header and give a record
ExerciseLines ==
    {i \in DOMAIN WorkoutLines :
        /\ ~IsSectionHeader(WorkoutLines[i])
        /\ parse_exercise_line(exercise_map, WithoutListMarker(WorkoutLines[i])) # <<>>}

\* C22: in parse_workout a line ending in ':' or starting with '##' gives
\* no exercise record and sets the current section; every exercise carries
\* the section of the most recent header line before its line, or none if
\* no header precedes it (so the section changes only at header lines).
C22_SectionTracking ==
    op.kind = "parse_workout" =>
        /\ Len(op.workout.exercises) = Cardinality(ExerciseLines)
        /\ \A j \in DOMAIN op.workout.exercises :
               /\ op.workout.exercises[j].raw_name =
                      parse_exercise_line(exercise_map,
                          WithoutListMarker(WorkoutLines[Nth(ExerciseLines, j)]))[1].raw_name
               /\ op.workout.exercises[j].section = SectionAt(Nth(ExerciseLines, j))

\* a text with an exercise before any header, exercises under two
\* different headers, and a header line ('4x8 Pull-ups:') that would give a
\* record if it were parsed as an exercise
C22_Witness ==
    /\ op.kind = "parse_workout"
    /\ \E a, b, c \in DOMAIN op.workout.exercises :
           /\ a < b /\ b < c
           /\ op.workout.exercises[a].section = <<>>
           /\ op.workout.exercises[b].section # <<>>
           /\ op.workout.exercises[c].section # <<>>
           /\ op.workout.exercises[b].section # op.workout.exercises[c].section
    /\ \E i \in DOMAIN WorkoutLines :
           /\ IsSectionHeader(WorkoutLines[i])
           /\ parse_exercise_line(exercise_map, WithoutListMarker(WorkoutLines[i])) # <<>>

\* C23: list markers are stripped before classification: parse_workout
\* gives for a body prefixed by a bullet ('- ', 'BULLET ', '* ') or by a
\* number and a dot, whatever the number, the exercises it gives for the
\* body alone.
C23_ListMarkersStripped ==
    op.kind = "parse_workout" =>
        \A mark \in ListMarkers, body \in MarkerBodies :
            op.text = mark \o body =>
                op.workout.exercises =
                    parse_workout(exercise_map, body, DefaultWorkoutName).exercises

(***************************************************************************)
(* SpecEmptyName: one ExerciseMapper used with empty and whitespace-only   *)
(* names, both in map_exercise and in add_mapping.                         *)
(***************************************************************************)
\* the empty name and two names of white space only
BlankNames == {<<>>, <<" ", " ">>, <<" ", "TAB">>}

\* the names used: the blank ones, 'pull ups' and 'push up'
EmptyNameInputs ==
    BlankNames \cup {<<"p", "u", "l", "l", " ", "u", "p", "s">>, <<"p", "u", "s", "h", " ", "u", "p">>}

InitEmptyName ==
    /\ file \in InitialFiles
    /\ exercise_map = _load_map(file)
    /\ lastAddOf = [key \in {_normalize_name(n) : n \in EmptyNameInputs} |-> <<>>]
    /\ op = [kind |-> "init"]

NextEmptyName ==
    \/ \E name \in EmptyNameInputs, a \in AddArgs : AddMapping(name, a)
    \/ \E name \in EmptyNameInputs : MapExercise(name)

SpecEmptyName == InitEmptyName /\ [][NextEmptyName]_vars

\* C24: with any catalog reached by load and add_mapping calls,
\* map_exercise on an empty or whitespace-only name returns confidence 0,
\* the category 'UNKNOWN' and an empty canonical name.
C24_BlankNameUnknown ==
    (op.kind = "map" /\ op.name \in BlankNames) =>
        /\ op.confidence = 0
        /\ op.entry.garmin_category = "UNKNOWN"
        /\ op.entry.garmin_name = <<>>

\* the stepOrder values of the last to_garmin_format call, read group by
\* group: the group, its work step, its rest step
StepOrders ==
    [n \in 1..(3 * Len(Groups)) |->
        LET g == Groups[((n - 1) \div 3) + 1]
        IN  IF n % 3 = 1 THEN g.stepOrder
            ELSE IF n % 3 = 2 THEN g.workoutSteps[1].stepOrder
            ELSE g.workoutSteps[2].stepOrder]

\* C25: in the output of to_garmin_format the stepOrder values are
\* strictly increasing when read group by group (group, work step, rest
\* step); hence no value is used twice and every stepOrder of a group is
\* below every stepOrder of the groups after it.
C25_StepOrderIncreasing ==
    op.kind = "to_garmin" =>
        /\ \A a, b \in DOMAIN StepOrders : a < b => StepOrders[a] < StepOrders[b]
        /\ \A i, j \in DOMAIN Groups : i < j =>
               Groups[i].workoutSteps[2].stepOrder < Groups[j].stepOrder

\* a workout of four exercises was converted: stepOrder 1 to 12
C25_Witness ==
    /\ op.kind = "to_garmin"
    /\ Len(Groups) = 4
    /\ StepOrders[1] = 1
    /\ StepOrders[12] = 12

\* C26: no rollback on a failed add: when the write of add_mapping fails,
\* the call raises, the in-memory catalog holds the new entry, the storage
\* does not hold it (unless it held that very entry before the call), and
\* map_exercise of that name, on the catalog as it then is, returns the
\* entry with confidence 100.
C26_NoRollbackOnFailedAdd ==
    op.kind = "add_write_failed" =>
        /\ op.raised
        /\ DictHas(exercise_map, _normalize_name(op.name))
        /\ DictGet(exercise_map, _normalize_name(op.name)) = op.entry
        /\ ~op.held_before => ~Holds(file, op.name, op.entry)
        /\ map_exercise(exercise_map, op.name) = [entry |-> op.entry, confidence |-> 100]

\* a failed add of 'press bench' to a catalog whose stored document does
\* not hold it: the entry is in memory and not in the document
C26_Witness ==
    /\ op.kind = "add_write_failed"
    /\ op.name = <<"p", "r", "e", "s", "s", " ", "b", "e", "n", "c", "h">>
    /\ ~op.held_before
    /\ file.kind = "object"
    /\ file.exercises # <<>>
    /\ ~DictHas(file.exercises, <<"p", "r", "e", "s", "s", " ", "b", "e", "n", "c", "h">>)
    /\ DictHas(exercise_map, <<"p", "r", "e", "s", "s", " ", "b", "e", "n", "c", "h">>)

====
